---- MODULE Spec2Model ----
(***************************************************************************)
(* Personal-trainer front end: the fetch / mutate / refresh cycle of the   *)
(* routed views (CustomerList, TrainingList, CalendarPage, StatisticsPage) *)
(* over the REST client `api`, with the remote service as a pair of lists. *)
(*                                                                         *)
(* One step of the model is one run-to-completion task of the browser's    *)
(* event loop: a user event, the effect run on mount, or the continuation  *)
(* of an awaited call when its response arrives.  A request is issued by   *)
(* the client, handled by the remote service at some later point, and its  *)
(* response is delivered to the client at some still later point; in       *)
(* between any other task may run.                                         *)
(*                                                                         *)
(* Spec is the mutation cycle over the seed data; FairSpec is Spec with    *)
(* every request resolving; SpecBrowse opens a view over any of the seed   *)
(* collections, searches it and resets the database from the app bar.      *)
(***************************************************************************)
EXTENDS Integers, Sequences, FiniteSets, TLC

\* Requests issued in one behaviour (caps the run; not a program constant).
MaxReq == 4

\* useState(null) of selectedTrainingId, as an integer no training id takes.
NULL == -1

VARIABLES
  view,                 \* the route that is mounted (App.jsx Routes)
  mounted,              \* the mount effect (useEffect(..., [])) has run
  srvCustomers,         \* remote service: the customers, in list order
  srvTrainings,         \* remote service: the trainings, in list order
  srvNext,              \* remote service: next identity it assigns
  reqs,                 \* every request issued so far, in issue order
  customers,            \* CustomerList state
  trainings,            \* TrainingList state
  events,               \* CalendarPage state
  stats,                \* StatisticsPage state
  loading,              \* `loading` of the mounted view
  searchTerm,           \* `searchTerm` of the mounted list view
  customerDialogOpen,
  trainingDialogOpen,
  deleteDialogOpen,     \* `deleteDialogOpen` of the mounted list view
  selectedCustomer,     \* <<>> for null, <<row>> otherwise
  selectedCustomerUrl,  \* "" when cleared
  isEditing,
  selectedTrainingId,   \* NULL when cleared
  trainingDialogRow,    \* history: locator of the row whose Add Training opened the dialog
  log                   \* history: what the last task did, in program order

vars == <<view, mounted, srvCustomers, srvTrainings, srvNext, reqs, customers,
          trainings, events, stats, loading, searchTerm, customerDialogOpen,
          trainingDialogOpen, deleteDialogOpen, selectedCustomer,
          selectedCustomerUrl, isEditing, selectedTrainingId,
          trainingDialogRow, log>>

srvVars == <<srvCustomers, srvTrainings, srvNext>>
dialogVars == <<customerDialogOpen, trainingDialogOpen, deleteDialogOpen,
                selectedCustomer, selectedCustomerUrl, isEditing,
                selectedTrainingId, trainingDialogRow>>
dataVars == <<customers, trainings, events, stats>>

Views == {"customers", "trainings", "calendar", "statistics"}

----------------------------------------------------------------------------
(* Data *)

\* A customer's resource locator (_links.self.href), assigned by the service.
Href(n) == "c" \o ToString(n)

Customer(h, f) ==
  [href |-> h, firstname |-> f.firstname, lastname |-> f.lastname,
   email |-> f.email, city |-> f.city]

\* What the customer form can submit (formData of CustomerDialog).
AnnForm == [firstname |-> "Ann", lastname |-> "Lee", email |-> "ann@x.fi", city |-> "Oulu"]
BoForm == [firstname |-> "Bo", lastname |-> "Ek", email |-> "bo@x.fi", city |-> "Turku"]
FormInputs == {BoForm}

\* An ISO 8601 date-time in UTC (Date.prototype.toISOString), by its day
\* since the epoch and its minute of the day.
Iso(day, minute) == [day |-> day, minute |-> minute]

\* new Date(iso).getTime(): the instant in milliseconds since the epoch.
GetTime(iso) == (iso.day * 1440 + iso.minute) * 60000

\* What the training form can submit (formData of TrainingDialog).
TrainingInputs ==
  { [date |-> Iso(5, 60), duration |-> 60, activity |-> "Gym"] }

SeedCustomers == << Customer(Href(1), AnnForm) >>

SeedTrainings ==
  << [id |-> 0, date |-> Iso(1, 540), duration |-> 30, activity |-> "Run", customer |-> Href(1)],
     [id |-> 1, date |-> Iso(2, 600), duration |-> 45, activity |-> "Run", customer |-> Href(1)],
     [id |-> 2, date |-> Iso(3, 0), duration |-> 20, activity |-> "Yoga", customer |-> Href(1)] >>

\* The first identity the service assigns after the seed data.
SeedNext == 3

Range(s) == { s[i] : i \in 1..Len(s) }

\* The letters String.prototype.toLowerCase maps, and what it maps them to
\* (the ASCII letters; every other character of the model's texts is kept).
UpperCase == "ABCDEFGHIJKLMNOPQRSTUVWXYZ"
LowerCase == "abcdefghijklmnopqrstuvwxyz"

\* The k-th character of text s, as a text of length one.
CharAt(s, k) == SubSeq(s, k, k)

\* The lower-case letter of every upper-case letter.
LowerOf ==
  [ c \in { CharAt(UpperCase, k) : k \in 1..Len(UpperCase) } |->
      CharAt(LowerCase, CHOOSE k \in 1..Len(UpperCase) : CharAt(UpperCase, k) = c) ]

LowerChar(c) == IF c \in DOMAIN LowerOf THEN LowerOf[c] ELSE c

RECURSIVE ToLowerCase(_)
\* String.prototype.toLowerCase.
ToLowerCase(s) ==
  IF s = "" THEN ""
  ELSE LowerChar(CharAt(s, 1)) \o ToLowerCase(SubSeq(s, 2, Len(s)))

RECURSIVE IncludesFrom(_, _, _)
\* needle occurs in hay at position pos or later (the scan of String.prototype.includes).
IncludesFrom(hay, needle, pos) ==
  IF pos + Len(needle) - 1 > Len(hay) THEN FALSE
  ELSE IF SubSeq(hay, pos, pos + Len(needle) - 1) = needle THEN TRUE
  ELSE IncludesFrom(hay, needle, pos + 1)

\* String.prototype.includes.
Includes(hay, needle) == IncludesFrom(hay, needle, 1)

RECURSIVE SelectSeqBy(_, _)
\* s without the elements whose index is not in keep (Array.prototype.filter order).
SelectSeqBy(s, keep) ==
  IF s = <<>> THEN <<>>
  ELSE LET n == Len(s)
           front == SelectSeqBy(SubSeq(s, 1, n - 1), keep)
       IN IF n \in keep THEN Append(front, s[n]) ELSE front

----------------------------------------------------------------------------
(* The REST client `api` and the remote service behind it *)

\* One request of the client.  status: "sent" until the service has handled
\* it, then "ok" (2xx, payload set) or "err" (network failure, non-2xx);
\* delivered: the awaiting continuation has run.
\* awaited: a mutation handler awaits this call as its refresh;
\* notified: that handler had raised its success notification when it issued it.
Req(kind, target, body, awaited, notified) ==
  [kind |-> kind, target |-> target, body |-> body, awaited |-> awaited,
   notified |-> notified, status |-> "sent", delivered |-> FALSE, payload |-> <<>>]

GetCustomersReq(notified) == Req("getCustomers", "", <<>>, FALSE, notified)
AddCustomerReq(form) == Req("addCustomer", "", <<form>>, FALSE, FALSE)
UpdateCustomerReq(url, form) == Req("updateCustomer", url, <<form>>, FALSE, FALSE)
DeleteCustomerReq(url) == Req("deleteCustomer", url, <<>>, FALSE, FALSE)
AddTrainingReq(training) == Req("addTraining", "", <<training>>, FALSE, FALSE)
\* awaited: handleDeleteTraining awaits this fetch; id: the training it deleted.
GetTrainingsReq(awaited, id) == Req("getTrainings", id, <<>>, awaited, FALSE)
DeleteTrainingReq(id) == Req("deleteTraining", id, <<>>, FALSE, FALSE)
\* axios.post(.../reset) of Layout.
ResetReq == Req("reset", "", <<>>, FALSE, FALSE)

ListKinds == {"getCustomers", "getTrainings"}
\* The mutating calls whose success is followed by a refresh of the list.
RefreshingKinds == {"addCustomer", "updateCustomer", "deleteCustomer", "deleteTraining"}
MutatingKinds == RefreshingKinds \cup {"addTraining"}

InFlight(i) == i \in 1..Len(reqs) /\ ~reqs[i].delivered
Arrived(i) == InFlight(i) /\ reqs[i].status # "sent"

\* Room for n more requests, keeping one for the refresh of every mutating
\* call still in flight, so a continuation is never held back by MaxReq.
CanIssue(n) ==
  Len(reqs) + Cardinality({ i \in 1..Len(reqs) :
                             InFlight(i) /\ reqs[i].kind \in RefreshingKinds }) + n <= MaxReq

HasCustomer(url) == \E i \in 1..Len(srvCustomers) : srvCustomers[i].href = url
HasTraining(id) == \E i \in 1..Len(srvTrainings) : srvTrainings[i].id = id

\* GET /gettrainings embeds the owning customer (<<>> when there is none).
EmbeddedCustomer(url) ==
  IF HasCustomer(url)
  THEN LET c == CHOOSE c \in Range(srvCustomers) : c.href = url
       IN << [firstname |-> c.firstname, lastname |-> c.lastname] >>
  ELSE <<>>

TrainingsPayload ==
  [ i \in 1..Len(srvTrainings) |->
      [srvTrainings[i] EXCEPT !.customer = EmbeddedCustomer(srvTrainings[i].customer)] ]

\* DELETE /trainings/<id>: the service's list without that training.
ServiceDeleteTraining(id) ==
  SelectSeqBy(srvTrainings, { i \in 1..Len(srvTrainings) : srvTrainings[i].id # id })

\* The service answers request i (2xx).
ServerOk(i) ==
  /\ i \in 1..Len(reqs)
  /\ reqs[i].status = "sent"
  /\ LET r == reqs[i] IN
     CASE r.kind = "getCustomers" ->
            /\ reqs' = [reqs EXCEPT ![i].status = "ok", ![i].payload = srvCustomers]
            /\ UNCHANGED srvVars
       [] r.kind = "addCustomer" ->
            /\ srvCustomers' = Append(srvCustomers, Customer(Href(srvNext), r.body[1]))
            /\ srvNext' = srvNext + 1
            /\ reqs' = [reqs EXCEPT ![i].status = "ok"]
            /\ UNCHANGED srvTrainings
       [] r.kind = "updateCustomer" ->
            /\ HasCustomer(r.target)
            /\ srvCustomers' = [ k \in 1..Len(srvCustomers) |->
                                   IF srvCustomers[k].href = r.target
                                   THEN Customer(r.target, r.body[1])
                                   ELSE srvCustomers[k] ]
            /\ reqs' = [reqs EXCEPT ![i].status = "ok"]
            /\ UNCHANGED <<srvTrainings, srvNext>>
       [] r.kind = "deleteCustomer" ->
            /\ HasCustomer(r.target)
            /\ srvCustomers' = SelectSeqBy(srvCustomers,
                 { k \in 1..Len(srvCustomers) : srvCustomers[k].href # r.target })
            /\ srvTrainings' = SelectSeqBy(srvTrainings,
                 { k \in 1..Len(srvTrainings) : srvTrainings[k].customer # r.target })
            /\ reqs' = [reqs EXCEPT ![i].status = "ok"]
            /\ UNCHANGED srvNext
       [] r.kind = "getTrainings" ->
            /\ reqs' = [reqs EXCEPT ![i].status = "ok", ![i].payload = TrainingsPayload]
            /\ UNCHANGED srvVars
       [] r.kind = "addTraining" ->
            /\ srvTrainings' = Append(srvTrainings,
                 [id |-> srvNext, date |-> r.body[1].date, duration |-> r.body[1].duration,
                  activity |-> r.body[1].activity, customer |-> r.body[1].customer])
            /\ srvNext' = srvNext + 1
            /\ reqs' = [reqs EXCEPT ![i].status = "ok"]
            /\ UNCHANGED srvCustomers
       [] r.kind = "deleteTraining" ->
            /\ HasTraining(r.target)
            /\ srvTrainings' = ServiceDeleteTraining(r.target)
            /\ reqs' = [reqs EXCEPT ![i].status = "ok"]
            /\ UNCHANGED <<srvCustomers, srvNext>>
       [] r.kind = "reset" ->
            /\ srvCustomers' = SeedCustomers
            /\ srvTrainings' = SeedTrainings
            /\ srvNext' = SeedNext
            /\ reqs' = [reqs EXCEPT ![i].status = "ok"]
  /\ UNCHANGED <<view, searchTerm, mounted, dataVars, loading, dialogVars, log>>

\* Request i fails: the network drops it or the service answers non-2xx.
ServerFail(i) ==
  /\ i \in 1..Len(reqs)
  /\ reqs[i].status = "sent"
  /\ reqs' = [reqs EXCEPT ![i].status = "err"]
  /\ UNCHANGED <<view, searchTerm, mounted, srvVars, dataVars, loading, dialogVars, log>>

\* The continuation awaiting request i has run; the response is dropped.
Delivered(i) ==
  [reqs EXCEPT ![i].delivered = TRUE, ![i].body = <<>>, ![i].payload = <<>>]

----------------------------------------------------------------------------
(* What one task did, in program order (the history variable log) *)

E(op, name, req) == [op |-> op, name |-> name, req |-> req]

User(name) == E("user", name, 0)
Resolved(i) == E("resolved", reqs[i].status, i)
Call(kind) == E("call", kind, Len(reqs) + 1)
ToastError == E("toast", "error", 0)
ToastSuccess == E("toast", "success", 0)
SetState(name) == E("set", name, 0)

IsCall(e) == e.op = "call"
IsListCall(e) == e.op = "call" /\ e.name \in ListKinds
IsMutatingCall(e) == e.op = "call" /\ e.name \in MutatingKinds
IsToastError(e) == e.op = "toast" /\ e.name = "error"
IsToastSuccess(e) == e.op = "toast" /\ e.name = "success"

\* How many calls, list-all calls and notifications a task s made.
NumCalls(s) == Cardinality({ k \in 1..Len(s) : IsCall(s[k]) })
NumListCalls(s) == Cardinality({ k \in 1..Len(s) : IsListCall(s[k]) })
NumToastError(s) == Cardinality({ k \in 1..Len(s) : IsToastError(s[k]) })
NumToastSuccess(s) == Cardinality({ k \in 1..Len(s) : IsToastSuccess(s[k]) })

----------------------------------------------------------------------------
(* CustomerList *)

\* The dialogs are modal (Dialog open=...): the page behind an open dialog
\* takes no click.
NoDialogOpen == ~customerDialogOpen /\ ~trainingDialogOpen /\ ~deleteDialogOpen

\* Faulty variant of MatchesCustomer: the term is compared as typed.
MatchesCustomerAsTyped(customer, term) ==
  \/ Includes(ToLowerCase(customer.firstname), term)
  \/ Includes(ToLowerCase(customer.lastname), term)
  \/ Includes(ToLowerCase(customer.email), term)
  \/ Includes(ToLowerCase(customer.city), term)

\* The callback of customers.filter.
MatchesCustomer(customer, term) ==
  LET searchStr == ToLowerCase(term) IN
    \/ Includes(ToLowerCase(customer.firstname), searchStr)
    \/ Includes(ToLowerCase(customer.lastname), searchStr)
    \/ Includes(ToLowerCase(customer.email), searchStr)
    \/ Includes(ToLowerCase(customer.city), searchStr)

\* Faulty variant of FilterCustomers: the first match is left out.
FilterCustomersSkipFirst(cs, term) ==
  LET kept == SelectSeqBy(cs, { k \in 1..Len(cs) : MatchesCustomer(cs[k], term) })
  IN IF kept = <<>> THEN kept ELSE Tail(kept)

\* customers.filter(...) with the given search term.
FilterCustomers(cs, term) ==
  SelectSeqBy(cs, { k \in 1..Len(cs) : MatchesCustomer(cs[k], term) })

\* The rows handed to the DataGrid.
filteredCustomers == FilterCustomers(customers, searchTerm)

\* fetchCustomers up to its await: setLoading(true), then the list call.
StartFetchCustomers == << SetState("loading=true"), Call("getCustomers") >>

\* Faulty variant of LoadedCustomers: the response is appended to the list held.
MergedCustomers(i) == customers \o reqs[i].payload

\* Faulty variant of LoadedCustomers: a response is dropped when the response
\* of a call issued later has been applied already.
LatestOnlyCustomers(i) ==
  IF \E j \in (i + 1)..Len(reqs) :
       reqs[j].kind = "getCustomers" /\ reqs[j].delivered /\ reqs[j].status = "ok"
  THEN customers
  ELSE reqs[i].payload

\* setCustomers(customers) with the response of call i to api.getCustomers().
LoadedCustomers(i) == reqs[i].payload

\* useEffect(() => { fetchCustomers(); }, [])
MountCustomers ==
  /\ view = "customers" /\ ~mounted /\ CanIssue(1)
  /\ mounted' = TRUE
  /\ loading' = TRUE
  /\ reqs' = Append(reqs, GetCustomersReq(FALSE))
  /\ log' = << User("mount") >> \o StartFetchCustomers
  /\ UNCHANGED <<view, searchTerm, srvVars, dataVars, dialogVars>>

\* fetchCustomers after its await, the call having succeeded.
FetchCustomersOk(i) ==
  /\ view = "customers" /\ Arrived(i)
  /\ reqs[i].kind = "getCustomers" /\ reqs[i].status = "ok"
  /\ customers' = LoadedCustomers(i)
  /\ loading' = FALSE
  /\ reqs' = Delivered(i)
  /\ log' = << Resolved(i), SetState("customers"), SetState("loading=false") >>
  /\ UNCHANGED <<view, searchTerm, mounted, srvVars, trainings, events, stats, dialogVars>>

\* fetchCustomers after its await, the call having failed.
FetchCustomersFail(i) ==
  /\ view = "customers" /\ Arrived(i)
  /\ reqs[i].kind = "getCustomers" /\ reqs[i].status = "err"
  /\ loading' = FALSE
  /\ reqs' = Delivered(i)
  /\ log' = << Resolved(i), ToastError, SetState("loading=false") >>
  /\ UNCHANGED <<view, searchTerm, mounted, srvVars, dataVars, dialogVars>>

\* The Add Customer button.
ClickAddCustomer ==
  /\ view = "customers" /\ mounted /\ NoDialogOpen
  /\ isEditing' = FALSE
  /\ selectedCustomer' = <<>>
  /\ customerDialogOpen' = TRUE
  /\ log' = << User("clickAddCustomer") >>
  /\ UNCHANGED <<view, searchTerm, mounted, srvVars, reqs, dataVars, loading, trainingDialogOpen,
                 deleteDialogOpen, selectedCustomerUrl, selectedTrainingId,
                 trainingDialogRow>>

\* The Edit action of a row.
ClickEditCustomer(row) ==
  /\ view = "customers" /\ mounted /\ NoDialogOpen
  /\ row \in { c \in Range(customers) : MatchesCustomer(c, searchTerm) }   \* a row of filteredCustomers
  /\ selectedCustomer' = << row >>
  /\ isEditing' = TRUE
  /\ customerDialogOpen' = TRUE
  /\ log' = << User("clickEdit") >>
  /\ UNCHANGED <<view, searchTerm, mounted, srvVars, reqs, dataVars, loading, trainingDialogOpen,
                 deleteDialogOpen, selectedCustomerUrl, selectedTrainingId,
                 trainingDialogRow>>

\* The Delete action of a row.
ClickDeleteCustomer(row) ==
  /\ view = "customers" /\ mounted /\ NoDialogOpen
  /\ row \in { c \in Range(customers) : MatchesCustomer(c, searchTerm) }   \* a row of filteredCustomers
  /\ selectedCustomerUrl' = row.href
  /\ deleteDialogOpen' = TRUE
  /\ log' = << User("clickDelete") >>
  /\ UNCHANGED <<view, searchTerm, mounted, srvVars, reqs, dataVars, loading, customerDialogOpen,
                 trainingDialogOpen, selectedCustomer, isEditing, selectedTrainingId,
                 trainingDialogRow>>

\* The Add Training action of a row.
ClickAddTraining(row) ==
  /\ view = "customers" /\ mounted /\ NoDialogOpen
  /\ row \in { c \in Range(customers) : MatchesCustomer(c, searchTerm) }   \* a row of filteredCustomers
  /\ selectedCustomerUrl' = row.href
  /\ trainingDialogOpen' = TRUE
  /\ trainingDialogRow' = row.href
  /\ log' = << User("clickAddTraining") >>
  /\ UNCHANGED <<view, searchTerm, mounted, srvVars, reqs, dataVars, loading, customerDialogOpen,
                 deleteDialogOpen, selectedCustomer, isEditing, selectedTrainingId>>

\* onClose of CustomerDialog.
CloseCustomerDialog ==
  /\ view = "customers" /\ customerDialogOpen
  /\ customerDialogOpen' = FALSE
  /\ isEditing' = FALSE
  /\ selectedCustomer' = <<>>
  /\ log' = << User("closeCustomerDialog") >>
  /\ UNCHANGED <<view, searchTerm, mounted, srvVars, reqs, dataVars, loading, trainingDialogOpen,
                 deleteDialogOpen, selectedCustomerUrl, selectedTrainingId,
                 trainingDialogRow>>

\* onClose of TrainingDialog.
CloseTrainingDialog ==
  /\ view = "customers" /\ trainingDialogOpen
  /\ trainingDialogOpen' = FALSE
  /\ selectedCustomerUrl' = ""
  /\ log' = << User("closeTrainingDialog") >>
  /\ UNCHANGED <<view, searchTerm, mounted, srvVars, reqs, dataVars, loading, customerDialogOpen,
                 deleteDialogOpen, selectedCustomer, isEditing, selectedTrainingId,
                 trainingDialogRow>>

\* onClose of DeleteConfirmDialog (both list views).
CloseDeleteDialog ==
  /\ view \in {"customers", "trainings"} /\ deleteDialogOpen
  /\ deleteDialogOpen' = FALSE
  /\ log' = << User("closeDeleteDialog") >>
  /\ UNCHANGED <<view, searchTerm, mounted, srvVars, reqs, dataVars, loading, customerDialogOpen,
                 trainingDialogOpen, selectedCustomer, selectedCustomerUrl, isEditing,
                 selectedTrainingId, trainingDialogRow>>

\* Faulty variant of SetSearchTerm: the term is sent to the service as a query.
SetSearchTermRefetch(term) ==
  /\ view \in {"customers", "trainings"} /\ mounted /\ NoDialogOpen
  /\ term # searchTerm
  /\ CanIssue(1)
  /\ searchTerm' = term
  /\ loading' = TRUE
  /\ reqs' = Append(reqs, IF view = "customers" THEN GetCustomersReq(FALSE)
                                                ELSE GetTrainingsReq(FALSE, NULL))
  /\ log' = << User("search"), SetState("searchTerm"),
               Call(IF view = "customers" THEN "getCustomers" ELSE "getTrainings") >>
  /\ UNCHANGED <<view, mounted, srvVars, dataVars, dialogVars>>

\* onChange of the search TextField (both list views): setSearchTerm(e.target.value).
SetSearchTerm(term) ==
  /\ view \in {"customers", "trainings"} /\ mounted /\ NoDialogOpen
  /\ term # searchTerm
  /\ searchTerm' = term
  /\ log' = << User("search"), SetState("searchTerm") >>
  /\ UNCHANGED <<view, mounted, srvVars, reqs, dataVars, loading, dialogVars>>

\* handleEditCustomer: the guard on the selected row's locator.
NoSelectedHref == selectedCustomer = <<>> \/ selectedCustomer[1].href = ""

\* Save of CustomerDialog: onSave is handleEditCustomer when isEditing, else
\* handleAddCustomer; each runs up to its await.
SubmitCustomerDialog(form) ==
  /\ view = "customers" /\ customerDialogOpen
  /\ form \in FormInputs
  /\ CanIssue(2)
  /\ IF isEditing
     THEN IF NoSelectedHref
          THEN /\ log' = << User("saveCustomer") >>
               /\ UNCHANGED reqs
          ELSE /\ reqs' = Append(reqs, UpdateCustomerReq(selectedCustomer[1].href, form))
               /\ log' = << User("saveCustomer"), Call("updateCustomer") >>
     ELSE /\ reqs' = Append(reqs, AddCustomerReq(form))
          /\ log' = << User("saveCustomer"), Call("addCustomer") >>
  /\ UNCHANGED <<view, searchTerm, mounted, srvVars, dataVars, loading, dialogVars>>

\* Delete of DeleteConfirmDialog: handleDeleteCustomer up to its await.
\* Faulty variant of ConfirmDeleteCustomer: the guard on the selection is missing.
ConfirmDeleteCustomerUnguarded ==
  /\ view = "customers" /\ deleteDialogOpen
  /\ CanIssue(2)
  /\ reqs' = Append(reqs, DeleteCustomerReq(selectedCustomerUrl))
  /\ log' = << User("confirmDelete"), Call("deleteCustomer") >>
  /\ UNCHANGED <<view, searchTerm, mounted, srvVars, dataVars, loading, dialogVars>>

ConfirmDeleteCustomer ==
  /\ view = "customers" /\ deleteDialogOpen
  /\ IF selectedCustomerUrl = ""
     THEN /\ log' = << User("confirmDelete") >>
          /\ UNCHANGED reqs
     ELSE /\ CanIssue(2)
          /\ reqs' = Append(reqs, DeleteCustomerReq(selectedCustomerUrl))
          /\ log' = << User("confirmDelete"), Call("deleteCustomer") >>
  /\ UNCHANGED <<view, searchTerm, mounted, srvVars, dataVars, loading, dialogVars>>

\* TrainingDialog.handleSubmit: onSave({...formData, customer: customerUrl}).
SubmittedTraining(input) ==
  [date |-> input.date, duration |-> input.duration, activity |-> input.activity,
   customer |-> selectedCustomerUrl]

\* Save of TrainingDialog: handleAddTraining up to its await.
SubmitTrainingDialog(input) ==
  /\ view = "customers" /\ trainingDialogOpen
  /\ input \in TrainingInputs
  /\ CanIssue(1)
  /\ reqs' = Append(reqs, AddTrainingReq(SubmittedTraining(input)))
  /\ log' = << User("saveTraining"), Call("addTraining") >>
  /\ UNCHANGED <<view, searchTerm, mounted, srvVars, dataVars, loading, dialogVars>>

\* What a customer handler does after a successful mutating call, before it
\* touches the dialogs: toast.success(...); fetchCustomers().
AfterCustomerMutation == << ToastSuccess >> \o StartFetchCustomers

\* handleAddCustomer after its await, the call having succeeded.
AddCustomerOk(i) ==
  /\ view = "customers" /\ Arrived(i)
  /\ reqs[i].kind = "addCustomer" /\ reqs[i].status = "ok"
  /\ loading' = TRUE
  /\ reqs' = Append(Delivered(i), GetCustomersReq(TRUE))
  /\ customerDialogOpen' = FALSE
  /\ log' = << Resolved(i) >> \o AfterCustomerMutation
            \o << SetState("customerDialogOpen=false") >>
  /\ UNCHANGED <<view, searchTerm, mounted, srvVars, dataVars, trainingDialogOpen, deleteDialogOpen,
                 selectedCustomer, selectedCustomerUrl, isEditing, selectedTrainingId,
                 trainingDialogRow>>

\* handleEditCustomer after its await, the call having succeeded.
EditCustomerOk(i) ==
  /\ view = "customers" /\ Arrived(i)
  /\ reqs[i].kind = "updateCustomer" /\ reqs[i].status = "ok"
  /\ loading' = TRUE
  /\ reqs' = Append(Delivered(i), GetCustomersReq(TRUE))
  /\ customerDialogOpen' = FALSE
  /\ selectedCustomer' = <<>>
  /\ log' = << Resolved(i) >> \o AfterCustomerMutation
            \o << SetState("customerDialogOpen=false"), SetState("selectedCustomer=null") >>
  /\ UNCHANGED <<view, searchTerm, mounted, srvVars, dataVars, trainingDialogOpen, deleteDialogOpen,
                 selectedCustomerUrl, isEditing, selectedTrainingId, trainingDialogRow>>

\* Faulty variant of DeleteCustomerOk: fetchCustomers() is left out.
DeleteCustomerOkNoRefresh(i) ==
  /\ view = "customers" /\ Arrived(i)
  /\ reqs[i].kind = "deleteCustomer" /\ reqs[i].status = "ok"
  /\ reqs' = Delivered(i)
  /\ deleteDialogOpen' = FALSE
  /\ selectedCustomerUrl' = ""
  /\ log' = << Resolved(i), ToastSuccess, SetState("deleteDialogOpen=false"),
               SetState("selectedCustomerUrl=''") >>
  /\ UNCHANGED <<view, searchTerm, mounted, srvVars, dataVars, loading, customerDialogOpen,
                 trainingDialogOpen, selectedCustomer, isEditing, selectedTrainingId,
                 trainingDialogRow>>

\* handleDeleteCustomer after its await, the call having succeeded.
DeleteCustomerOk(i) ==
  /\ view = "customers" /\ Arrived(i)
  /\ reqs[i].kind = "deleteCustomer" /\ reqs[i].status = "ok"
  /\ loading' = TRUE
  /\ reqs' = Append(Delivered(i), GetCustomersReq(TRUE))
  /\ deleteDialogOpen' = FALSE
  /\ selectedCustomerUrl' = ""
  /\ log' = << Resolved(i) >> \o AfterCustomerMutation
            \o << SetState("deleteDialogOpen=false"), SetState("selectedCustomerUrl=''") >>
  /\ UNCHANGED <<view, searchTerm, mounted, srvVars, dataVars, customerDialogOpen, trainingDialogOpen,
                 selectedCustomer, isEditing, selectedTrainingId, trainingDialogRow>>

\* handleAddTraining after its await, the call having succeeded.
AddTrainingOk(i) ==
  /\ view = "customers" /\ Arrived(i)
  /\ reqs[i].kind = "addTraining" /\ reqs[i].status = "ok"
  /\ reqs' = Delivered(i)
  /\ trainingDialogOpen' = FALSE
  /\ selectedCustomerUrl' = ""
  /\ log' = << Resolved(i), ToastSuccess, SetState("trainingDialogOpen=false"),
               SetState("selectedCustomerUrl=''") >>
  /\ UNCHANGED <<view, searchTerm, mounted, srvVars, dataVars, loading, customerDialogOpen,
                 deleteDialogOpen, selectedCustomer, isEditing, selectedTrainingId,
                 trainingDialogRow>>

\* The catch branch of a customer handler: toast.error(...); console.error(...).
CustomerCatch == << ToastError >>

\* Faulty variant of CustomerMutationFail: the catch branch empties the list.
CustomerMutationFailReset(i) ==
  /\ view = "customers" /\ Arrived(i)
  /\ reqs[i].kind \in MutatingKinds /\ reqs[i].status = "err"
  /\ reqs' = Delivered(i)
  /\ customers' = <<>>
  /\ log' = << Resolved(i), SetState("customers") >> \o CustomerCatch
  /\ UNCHANGED <<view, searchTerm, mounted, srvVars, trainings, events, stats, loading, dialogVars>>

\* handleAddCustomer / handleEditCustomer / handleDeleteCustomer /
\* handleAddTraining after the await, the call having failed.
CustomerMutationFail(i) ==
  /\ view = "customers" /\ Arrived(i)
  /\ reqs[i].kind \in MutatingKinds /\ reqs[i].status = "err"
  /\ reqs' = Delivered(i)
  /\ log' = << Resolved(i) >> \o CustomerCatch
  /\ UNCHANGED <<view, searchTerm, mounted, srvVars, dataVars, loading, dialogVars>>

----------------------------------------------------------------------------
(* TrainingList *)

\* !selectedTrainingId
Falsy(id) == id = NULL \/ id = 0

\* The callback of trainings.filter; training.customer is <<>> for null.
MatchesTraining(training, term) ==
  LET searchStr == ToLowerCase(term) IN
    \/ Includes(ToLowerCase(training.activity), searchStr)
    \/ /\ training.customer # <<>>
       /\ Includes(ToLowerCase(training.customer[1].firstname \o " "
                                 \o training.customer[1].lastname), searchStr)

\* trainings.filter(...) with the given search term.
FilterTrainings(ts, term) ==
  SelectSeqBy(ts, { k \in 1..Len(ts) : MatchesTraining(ts[k], term) })

\* The rows handed to the DataGrid.
filteredTrainings == FilterTrainings(trainings, searchTerm)

\* Faulty variant of LoadedTrainings: the response is appended to the list held.
MergedTrainings(i) == trainings \o reqs[i].payload

\* setTrainings(data) with the response of call i to api.getTrainings().
LoadedTrainings(i) == reqs[i].payload

\* useEffect(() => { fetchTrainings(); }, [])
MountTrainings ==
  /\ view = "trainings" /\ ~mounted /\ CanIssue(1)
  /\ mounted' = TRUE
  /\ reqs' = Append(reqs, GetTrainingsReq(FALSE, NULL))
  /\ log' = << User("mount"), Call("getTrainings") >>
  /\ UNCHANGED <<view, searchTerm, srvVars, dataVars, loading, dialogVars>>

\* The Delete action of a row.
ClickDeleteTraining(row) ==
  /\ view = "trainings" /\ mounted /\ NoDialogOpen
  /\ row \in { t \in Range(trainings) : MatchesTraining(t, searchTerm) }   \* a row of filteredTrainings
  /\ selectedTrainingId' = row.id
  /\ deleteDialogOpen' = TRUE
  /\ log' = << User("clickDelete") >>
  /\ UNCHANGED <<view, searchTerm, mounted, srvVars, reqs, dataVars, loading, customerDialogOpen,
                 trainingDialogOpen, selectedCustomer, selectedCustomerUrl, isEditing,
                 trainingDialogRow>>

\* Delete of DeleteConfirmDialog: handleDeleteTraining up to its first await.
ConfirmDeleteTraining ==
  /\ view = "trainings" /\ deleteDialogOpen
  /\ IF Falsy(selectedTrainingId)
     THEN /\ log' = << User("confirmDelete") >>
          /\ UNCHANGED reqs
     ELSE /\ CanIssue(2)
          /\ reqs' = Append(reqs, DeleteTrainingReq(selectedTrainingId))
          /\ log' = << User("confirmDelete"), Call("deleteTraining") >>
  /\ UNCHANGED <<view, searchTerm, mounted, srvVars, dataVars, loading, dialogVars>>

\* Faulty variant of DeleteTrainingOk: fetchTrainings() is not awaited, the
\* dialog is closed as soon as the refresh is issued.
DeleteTrainingOkNoAwait(i) ==
  /\ view = "trainings" /\ Arrived(i)
  /\ reqs[i].kind = "deleteTraining" /\ reqs[i].status = "ok"
  /\ reqs' = Append(Delivered(i), GetTrainingsReq(FALSE, reqs[i].target))
  /\ deleteDialogOpen' = FALSE
  /\ selectedTrainingId' = NULL
  /\ log' = << Resolved(i), Call("getTrainings"), SetState("deleteDialogOpen=false"),
               SetState("selectedTrainingId=null"), ToastSuccess >>
  /\ UNCHANGED <<view, searchTerm, mounted, srvVars, dataVars, loading, customerDialogOpen,
                 trainingDialogOpen, selectedCustomer, selectedCustomerUrl, isEditing,
                 trainingDialogRow>>

\* handleDeleteTraining after api.deleteTraining succeeded: it awaits
\* fetchTrainings(), which runs up to its own await.
DeleteTrainingOk(i) ==
  /\ view = "trainings" /\ Arrived(i)
  /\ reqs[i].kind = "deleteTraining" /\ reqs[i].status = "ok"
  /\ reqs' = Append(Delivered(i), GetTrainingsReq(TRUE, reqs[i].target))
  /\ log' = << Resolved(i), Call("getTrainings") >>
  /\ UNCHANGED <<view, searchTerm, mounted, srvVars, dataVars, loading, dialogVars>>

\* Faulty variant of DeleteTrainingFail: the dialog is closed and the
\* selection cleared on failure too.
DeleteTrainingFailClose(i) ==
  /\ view = "trainings" /\ Arrived(i)
  /\ reqs[i].kind = "deleteTraining" /\ reqs[i].status = "err"
  /\ reqs' = Delivered(i)
  /\ deleteDialogOpen' = FALSE
  /\ selectedTrainingId' = NULL
  /\ log' = << Resolved(i), ToastError, SetState("deleteDialogOpen=false"),
               SetState("selectedTrainingId=null") >>
  /\ UNCHANGED <<view, searchTerm, mounted, srvVars, dataVars, loading, customerDialogOpen,
                 trainingDialogOpen, selectedCustomer, selectedCustomerUrl, isEditing,
                 trainingDialogRow>>

\* handleDeleteTraining's catch branch.
DeleteTrainingFail(i) ==
  /\ view = "trainings" /\ Arrived(i)
  /\ reqs[i].kind = "deleteTraining" /\ reqs[i].status = "err"
  /\ reqs' = Delivered(i)
  /\ log' = << Resolved(i), ToastError >>
  /\ UNCHANGED <<view, searchTerm, mounted, srvVars, dataVars, loading, dialogVars>>

\* handleDeleteTraining after `await fetchTrainings()`: fetchTrainings
\* catches its own error, so this runs whether the refresh loaded or not.
AfterRefreshTrainings ==
  << SetState("deleteDialogOpen=false"), SetState("selectedTrainingId=null"), ToastSuccess >>

\* fetchTrainings after its await, the call having succeeded; then the
\* handler that awaited it, if any.
FetchTrainingsOk(i) ==
  /\ view = "trainings" /\ Arrived(i)
  /\ reqs[i].kind = "getTrainings" /\ reqs[i].status = "ok"
  /\ trainings' = LoadedTrainings(i)
  /\ loading' = FALSE
  /\ reqs' = Delivered(i)
  /\ IF reqs[i].awaited
     THEN /\ deleteDialogOpen' = FALSE
          /\ selectedTrainingId' = NULL
          /\ log' = << Resolved(i), SetState("trainings"), SetState("loading=false") >>
                    \o AfterRefreshTrainings
     ELSE /\ log' = << Resolved(i), SetState("trainings"), SetState("loading=false") >>
          /\ UNCHANGED <<deleteDialogOpen, selectedTrainingId>>
  /\ UNCHANGED <<view, searchTerm, mounted, srvVars, customers, events, stats, customerDialogOpen,
                 trainingDialogOpen, selectedCustomer, selectedCustomerUrl, isEditing,
                 trainingDialogRow>>

\* Faulty variant of FetchTrainingsFail: fetchTrainings rethrows, so the
\* handler awaiting it ends in its catch branch.
FetchTrainingsFailRethrow(i) ==
  /\ view = "trainings" /\ Arrived(i)
  /\ reqs[i].kind = "getTrainings" /\ reqs[i].status = "err"
  /\ loading' = FALSE
  /\ reqs' = Delivered(i)
  /\ log' = IF reqs[i].awaited
            THEN << Resolved(i), ToastError, SetState("loading=false"), ToastError >>
            ELSE << Resolved(i), ToastError, SetState("loading=false") >>
  /\ UNCHANGED <<view, searchTerm, mounted, srvVars, dataVars, dialogVars>>

\* fetchTrainings after its await, the call having failed; then the handler
\* that awaited it, if any.
FetchTrainingsFail(i) ==
  /\ view = "trainings" /\ Arrived(i)
  /\ reqs[i].kind = "getTrainings" /\ reqs[i].status = "err"
  /\ loading' = FALSE
  /\ reqs' = Delivered(i)
  /\ IF reqs[i].awaited
     THEN /\ deleteDialogOpen' = FALSE
          /\ selectedTrainingId' = NULL
          /\ log' = << Resolved(i), ToastError, SetState("loading=false") >>
                    \o AfterRefreshTrainings
     ELSE /\ log' = << Resolved(i), ToastError, SetState("loading=false") >>
          /\ UNCHANGED <<deleteDialogOpen, selectedTrainingId>>
  /\ UNCHANGED <<view, searchTerm, mounted, srvVars, dataVars, customerDialogOpen,
                 trainingDialogOpen, selectedCustomer, selectedCustomerUrl, isEditing,
                 trainingDialogRow>>

----------------------------------------------------------------------------
(* CalendarPage *)

\* training.customer.firstname of a training without customer throws.
CanProject(ts) == \A k \in 1..Len(ts) : ts[k].customer # <<>>

FullName(c) == c.firstname \o " " \o c.lastname

\* trainings.map(...) of fetchTrainings; start and end are Date objects, held
\* as their instants in milliseconds.
CalendarEvents(ts) ==
  [ k \in 1..Len(ts) |->
      [id |-> ts[k].id,
       title |-> ts[k].activity \o " / " \o FullName(ts[k].customer[1]),
       start |-> GetTime(ts[k].date),
       end |-> GetTime(ts[k].date) + ts[k].duration * 60000,
       customer |-> FullName(ts[k].customer[1])] ]

MountCalendar ==
  /\ view = "calendar" /\ ~mounted /\ CanIssue(1)
  /\ mounted' = TRUE
  /\ reqs' = Append(reqs, GetTrainingsReq(FALSE, NULL))
  /\ log' = << User("mount"), Call("getTrainings") >>
  /\ UNCHANGED <<view, searchTerm, srvVars, dataVars, loading, dialogVars>>

\* fetchTrainings after its await, the call having succeeded.
FetchCalendarOk(i) ==
  /\ view = "calendar" /\ Arrived(i)
  /\ reqs[i].kind = "getTrainings" /\ reqs[i].status = "ok"
  /\ IF CanProject(reqs[i].payload)
     THEN /\ events' = CalendarEvents(reqs[i].payload)
          /\ log' = << Resolved(i), SetState("events"), SetState("loading=false") >>
     ELSE /\ log' = << Resolved(i), ToastError, SetState("loading=false") >>
          /\ UNCHANGED events
  /\ loading' = FALSE
  /\ reqs' = Delivered(i)
  /\ UNCHANGED <<view, searchTerm, mounted, srvVars, customers, trainings, stats, dialogVars>>

\* Faulty variant of FetchCalendarFail: setLoading(false) sits in the try
\* block, not in finally.
FetchCalendarFailStillLoading(i) ==
  /\ view = "calendar" /\ Arrived(i)
  /\ reqs[i].kind = "getTrainings" /\ reqs[i].status = "err"
  /\ reqs' = Delivered(i)
  /\ log' = << Resolved(i), ToastError >>
  /\ UNCHANGED <<view, searchTerm, mounted, srvVars, dataVars, loading, dialogVars>>

\* fetchTrainings after its await, the call having failed.
FetchCalendarFail(i) ==
  /\ view = "calendar" /\ Arrived(i)
  /\ reqs[i].kind = "getTrainings" /\ reqs[i].status = "err"
  /\ loading' = FALSE
  /\ reqs' = Delivered(i)
  /\ log' = << Resolved(i), ToastError, SetState("loading=false") >>
  /\ UNCHANGED <<view, searchTerm, mounted, srvVars, dataVars, dialogVars>>

----------------------------------------------------------------------------
(* StatisticsPage *)

RECURSIVE Activities(_)
\* Object.entries(groupBy(trainings, 'activity')): the labels, each once, in
\* the order of their first training.
Activities(ts) ==
  IF ts = <<>> THEN <<>>
  ELSE LET n == Len(ts)
           front == Activities(SubSeq(ts, 1, n - 1))
       IN IF ts[n].activity \in Range(front) THEN front ELSE Append(front, ts[n].activity)

RECURSIVE SumDuration(_)
\* sumBy(trainings, 'duration')
SumDuration(ts) ==
  IF ts = <<>> THEN 0 ELSE ts[1].duration + SumDuration(Tail(ts))

\* Faulty variant of Group: labels are compared ignoring case.
GroupIgnoringCase(ts, a) ==
  SelectSeqBy(ts, { k \in 1..Len(ts) : ToLowerCase(ts[k].activity) = ToLowerCase(a) })

\* groupBy(trainings, 'activity')[a]
Group(ts, a) == SelectSeqBy(ts, { k \in 1..Len(ts) : ts[k].activity = a })

RECURSIVE InsertDesc(_, _)
\* e put into the sorted s after every entry that is not smaller.
InsertDesc(s, e) ==
  IF s = <<>> THEN << e >>
  ELSE IF s[1].duration >= e.duration
       THEN << s[1] >> \o InsertDesc(Tail(s), e)
       ELSE << e >> \o s

RECURSIVE SortDesc(_)
\* activityStats.sort((a, b) => b.duration - a.duration): stable.
SortDesc(s) ==
  IF s = <<>> THEN <<>>
  ELSE InsertDesc(SortDesc(SubSeq(s, 1, Len(s) - 1)), s[Len(s)])

\* Faulty variant of ActivityStats: the entries are left in grouping order.
ActivityStatsUnsorted(ts) ==
  LET acts == Activities(ts)
  IN [ k \in 1..Len(acts) |->
         [activity |-> acts[k], duration |-> SumDuration(Group(ts, acts[k]))] ]

\* activityStats of fetchStats, sorted.
ActivityStats(ts) ==
  LET acts == Activities(ts)
  IN SortDesc([ k \in 1..Len(acts) |->
                  [activity |-> acts[k], duration |-> SumDuration(Group(ts, acts[k]))] ])

\* useEffect(() => { ... fetchStats(); }, [])
MountStatistics ==
  /\ view = "statistics" /\ ~mounted /\ CanIssue(1)
  /\ mounted' = TRUE
  /\ reqs' = Append(reqs, GetTrainingsReq(FALSE, NULL))
  /\ log' = << User("mount"), Call("getTrainings") >>
  /\ UNCHANGED <<view, searchTerm, srvVars, dataVars, loading, dialogVars>>

\* fetchStats after its await, the call having succeeded.
FetchStatsOk(i) ==
  /\ view = "statistics" /\ Arrived(i)
  /\ reqs[i].kind = "getTrainings" /\ reqs[i].status = "ok"
  /\ stats' = ActivityStats(reqs[i].payload)
  /\ loading' = FALSE
  /\ reqs' = Delivered(i)
  /\ log' = << Resolved(i), SetState("stats"), SetState("loading=false") >>
  /\ UNCHANGED <<view, searchTerm, mounted, srvVars, customers, trainings, events, dialogVars>>

\* Faulty variant of FetchStatsFail: setLoading(false) sits in the try
\* block, not in finally.
FetchStatsFailStillLoading(i) ==
  /\ view = "statistics" /\ Arrived(i)
  /\ reqs[i].kind = "getTrainings" /\ reqs[i].status = "err"
  /\ reqs' = Delivered(i)
  /\ log' = << Resolved(i), ToastError >>
  /\ UNCHANGED <<view, searchTerm, mounted, srvVars, dataVars, loading, dialogVars>>

\* fetchStats after its await, the call having failed.
FetchStatsFail(i) ==
  /\ view = "statistics" /\ Arrived(i)
  /\ reqs[i].kind = "getTrainings" /\ reqs[i].status = "err"
  /\ loading' = FALSE
  /\ reqs' = Delivered(i)
  /\ log' = << Resolved(i), ToastError, SetState("loading=false") >>
  /\ UNCHANGED <<view, searchTerm, mounted, srvVars, dataVars, dialogVars>>

----------------------------------------------------------------------------
(* Layout: the Reset Database button of the app bar *)

\* window.location.reload(): the page starts over on the same route; the
\* responses still awaited by the page that is gone are dropped.
Reload ==
  /\ mounted' = FALSE
  /\ customers' = <<>> /\ trainings' = <<>> /\ events' = <<>> /\ stats' = <<>>
  /\ loading' = TRUE
  /\ searchTerm' = ""
  /\ customerDialogOpen' = FALSE /\ trainingDialogOpen' = FALSE
  /\ deleteDialogOpen' = FALSE
  /\ selectedCustomer' = <<>> /\ selectedCustomerUrl' = "" /\ isEditing' = FALSE
  /\ selectedTrainingId' = NULL
  /\ trainingDialogRow' = ""
  /\ reqs' = [ k \in 1..Len(reqs) |->
                [reqs[k] EXCEPT !.delivered = TRUE, !.body = <<>>, !.payload = <<>>] ]

\* handleResetDatabase up to its await.
ClickResetDatabase ==
  /\ mounted /\ NoDialogOpen
  /\ CanIssue(2)
  /\ reqs' = Append(reqs, ResetReq)
  /\ log' = << User("clickReset"), Call("reset") >>
  /\ UNCHANGED <<view, searchTerm, mounted, srvVars, dataVars, loading, dialogVars>>

\* handleResetDatabase after its await, the call having succeeded.
ResetDatabaseOk(i) ==
  /\ Arrived(i)
  /\ reqs[i].kind = "reset" /\ reqs[i].status = "ok"
  /\ Reload
  /\ log' = << Resolved(i), ToastSuccess, E("reload", "", 0) >>
  /\ UNCHANGED <<view, srvVars>>

\* Faulty variant of ResetDatabaseFail: the page is reloaded all the same.
ResetDatabaseFailReload(i) ==
  /\ Arrived(i)
  /\ reqs[i].kind = "reset" /\ reqs[i].status = "err"
  /\ Reload
  /\ log' = << Resolved(i), ToastError, E("reload", "", 0) >>
  /\ UNCHANGED <<view, srvVars>>

\* handleResetDatabase after its await, the call having failed.
ResetDatabaseFail(i) ==
  /\ Arrived(i)
  /\ reqs[i].kind = "reset" /\ reqs[i].status = "err"
  /\ reqs' = Delivered(i)
  /\ log' = << Resolved(i), ToastError >>
  /\ UNCHANGED <<view, searchTerm, mounted, srvVars, dataVars, loading, dialogVars>>

----------------------------------------------------------------------------
(* The specification *)

Init ==
  /\ view \in Views
  /\ mounted = FALSE
  /\ srvCustomers = SeedCustomers
  /\ srvTrainings = SeedTrainings
  /\ srvNext = SeedNext
  /\ reqs = <<>>
  /\ customers = <<>>
  /\ trainings = <<>>
  /\ events = <<>>
  /\ stats = <<>>
  /\ loading = TRUE
  /\ searchTerm = ""
  /\ customerDialogOpen = FALSE
  /\ trainingDialogOpen = FALSE
  /\ deleteDialogOpen = FALSE
  /\ selectedCustomer = <<>>
  /\ selectedCustomerUrl = ""
  /\ isEditing = FALSE
  /\ selectedTrainingId = NULL
  /\ trainingDialogRow = ""
  /\ log = <<>>

Next ==
  \/ MountCustomers
  \/ MountTrainings
  \/ MountCalendar
  \/ MountStatistics
  \/ ClickAddCustomer
  \/ \E row \in Range(customers) : ClickEditCustomer(row)
  \/ \E row \in Range(customers) : ClickDeleteCustomer(row)
  \/ \E row \in Range(customers) : ClickAddTraining(row)
  \/ CloseCustomerDialog
  \/ CloseTrainingDialog
  \/ CloseDeleteDialog
  \/ \E form \in FormInputs : SubmitCustomerDialog(form)
  \/ ConfirmDeleteCustomer
  \/ \E input \in TrainingInputs : SubmitTrainingDialog(input)
  \/ \E row \in Range(trainings) : ClickDeleteTraining(row)
  \/ ConfirmDeleteTraining
  \/ \E i \in 1..Len(reqs) : ServerOk(i)
  \/ \E i \in 1..Len(reqs) : ServerFail(i)
  \/ \E i \in 1..Len(reqs) : FetchCustomersOk(i)
  \/ \E i \in 1..Len(reqs) : FetchCustomersFail(i)
  \/ \E i \in 1..Len(reqs) : AddCustomerOk(i)
  \/ \E i \in 1..Len(reqs) : EditCustomerOk(i)
  \/ \E i \in 1..Len(reqs) : DeleteCustomerOk(i)
  \/ \E i \in 1..Len(reqs) : AddTrainingOk(i)
  \/ \E i \in 1..Len(reqs) : CustomerMutationFail(i)
  \/ \E i \in 1..Len(reqs) : DeleteTrainingOk(i)
  \/ \E i \in 1..Len(reqs) : DeleteTrainingFail(i)
  \/ \E i \in 1..Len(reqs) : FetchTrainingsOk(i)
  \/ \E i \in 1..Len(reqs) : FetchTrainingsFail(i)
  \/ \E i \in 1..Len(reqs) : FetchCalendarOk(i)
  \/ \E i \in 1..Len(reqs) : FetchCalendarFail(i)
  \/ \E i \in 1..Len(reqs) : FetchStatsOk(i)
  \/ \E i \in 1..Len(reqs) : FetchStatsFail(i)

\* The mutation cycle of the views over the seed data.
Spec == Init /\ [][Next]_vars

\* The mount effect of the routed view (React runs it after the first render).
MountView == MountCustomers \/ MountTrainings \/ MountCalendar \/ MountStatistics

\* The remote service answers a request, or the request fails.
Handle == \E i \in 1..Len(reqs) : ServerOk(i) \/ ServerFail(i)

\* The event loop runs the continuation that awaits an answered request.
Resume ==
  \E i \in 1..Len(reqs) :
    \/ FetchCustomersOk(i) \/ FetchCustomersFail(i)
    \/ AddCustomerOk(i) \/ EditCustomerOk(i) \/ DeleteCustomerOk(i)
    \/ AddTrainingOk(i) \/ CustomerMutationFail(i)
    \/ DeleteTrainingOk(i) \/ DeleteTrainingFail(i)
    \/ FetchTrainingsOk(i) \/ FetchTrainingsFail(i)
    \/ FetchCalendarOk(i) \/ FetchCalendarFail(i)
    \/ FetchStatsOk(i) \/ FetchStatsFail(i)

\* Spec in which the mount effect runs, every issued request is eventually
\* answered or fails, and every answer is eventually delivered.
FairSpec ==
  /\ Spec
  /\ WF_vars(MountView)
  /\ WF_vars(Handle)
  /\ WF_vars(Resume)

\* What the search fields can hold.
SearchTerms == {"", "LEE", "n l"}

CyForm == [firstname |-> "Cy", lastname |-> "Oz", email |-> "cy@x.fi", city |-> "Leeds"]

\* Customer collections the service can hold when a view is opened.
CustomerSeeds ==
  { <<>>,
    SeedCustomers,
    << Customer(Href(1), AnnForm), Customer(Href(2), BoForm), Customer(Href(3), CyForm) >> }

\* Training collections the service can hold when a view is opened; the
\* training with no customer locator has no owner.
TrainingSeeds ==
  { <<>>,
    SeedTrainings,
    << [id |-> 3, date |-> Iso(4, 0), duration |-> 20, activity |-> "Yoga", customer |-> Href(1)],
       [id |-> 4, date |-> Iso(4, 0), duration |-> 30, activity |-> "Run", customer |-> Href(2)],
       [id |-> 5, date |-> Iso(6, 1430), duration |-> 50, activity |-> "run", customer |-> ""],
       [id |-> 6, date |-> Iso(7, 1439), duration |-> 40, activity |-> "Yoga", customer |-> Href(3)] >> }

InitBrowse ==
  /\ view \in Views
  /\ mounted = FALSE
  /\ srvCustomers \in CustomerSeeds
  /\ srvTrainings \in TrainingSeeds
  /\ \A t \in Range(srvTrainings) : t.customer = "" \/ HasCustomer(t.customer)
  /\ srvNext = 7
  /\ reqs = <<>>
  /\ customers = <<>>
  /\ trainings = <<>>
  /\ events = <<>>
  /\ stats = <<>>
  /\ loading = TRUE
  /\ searchTerm = ""
  /\ customerDialogOpen = FALSE
  /\ trainingDialogOpen = FALSE
  /\ deleteDialogOpen = FALSE
  /\ selectedCustomer = <<>>
  /\ selectedCustomerUrl = ""
  /\ isEditing = FALSE
  /\ selectedTrainingId = NULL
  /\ trainingDialogRow = ""
  /\ log = <<>>

NextBrowse ==
  \/ MountCustomers
  \/ MountTrainings
  \/ MountCalendar
  \/ MountStatistics
  \/ \E term \in SearchTerms : SetSearchTerm(term)
  \/ ClickAddCustomer
  \/ \E row \in Range(customers) : ClickEditCustomer(row)
  \/ \E row \in Range(customers) : ClickDeleteCustomer(row)
  \/ \E row \in Range(customers) : ClickAddTraining(row)
  \/ CloseCustomerDialog
  \/ CloseTrainingDialog
  \/ CloseDeleteDialog
  \/ \E row \in Range(trainings) : ClickDeleteTraining(row)
  \/ ClickResetDatabase
  \/ \E i \in 1..Len(reqs) : ServerOk(i)
  \/ \E i \in 1..Len(reqs) : ServerFail(i)
  \/ \E i \in 1..Len(reqs) : FetchCustomersOk(i)
  \/ \E i \in 1..Len(reqs) : FetchCustomersFail(i)
  \/ \E i \in 1..Len(reqs) : FetchTrainingsOk(i)
  \/ \E i \in 1..Len(reqs) : FetchTrainingsFail(i)
  \/ \E i \in 1..Len(reqs) : FetchCalendarOk(i)
  \/ \E i \in 1..Len(reqs) : FetchCalendarFail(i)
  \/ \E i \in 1..Len(reqs) : FetchStatsOk(i)
  \/ \E i \in 1..Len(reqs) : FetchStatsFail(i)
  \/ \E i \in 1..Len(reqs) : ResetDatabaseOk(i)
  \/ \E i \in 1..Len(reqs) : ResetDatabaseFail(i)

\* Opening a view over any of the seed collections, searching it, opening and
\* closing its dialogs, and resetting the database from the app bar.
SpecBrowse == InitBrowse /\ [][NextBrowse]_vars

----------------------------------------------------------------------------
(* Properties of the fetch / mutate / refresh cycle *)

ListView == view \in {"customers", "trainings"}

\* The last task was the continuation of call log[1].req.
AfterResolve == log # <<>> /\ log[1].op = "resolved"
Trigger == reqs[log[1].req]
AfterOk(kinds) == AfterResolve /\ log[1].name = "ok" /\ Trigger.kind \in kinds
AfterErr(kinds) == AfterResolve /\ log[1].name = "err" /\ Trigger.kind \in kinds
AfterMount == log # <<>> /\ log[1] = User("mount")

ListCalls == NumListCalls(log)

\* This step runs the continuation of call i.
Delivers(i) == InFlight(i) /\ i \in 1..Len(reqs') /\ reqs'[i].delivered

\* C1 as stated: in a list view, a task issues one list-all call if it is the
\* mount or the continuation of a successful mutating call (customer create,
\* update, delete; training delete; training create from the customers view),
\* and none otherwise.
C1_AsStated ==
  (ListView /\ log # <<>>) =>
    ListCalls = IF AfterMount \/ AfterOk(MutatingKinds) THEN 1 ELSE 0

\* C1 amended: the same, except that a successful training create from the
\* customers view is followed by no list-all call.
C1_RefreshCalls ==
  (ListView /\ log # <<>>) =>
    ListCalls = IF AfterMount \/ AfterOk(RefreshingKinds) THEN 1 ELSE 0

C1_Witness ==
  /\ view = "customers" /\ AfterOk({"addTraining"}) /\ ListCalls = 0
  /\ \E i \in 1..Len(reqs) : reqs[i].kind = "getCustomers" /\ reqs[i].notified

\* C2: the collection of a list view changes only in the continuation of a
\* successful list-all call, and that continuation makes it exactly the
\* response: it is never merged into or edited in place.
C2_ReplacedWholesale ==
  [][ /\ \A i \in 1..Len(reqs) :
           (Delivers(i) /\ reqs[i].kind \in ListKinds /\ reqs[i].status = "ok" /\ ListView)
             => (IF view = "customers" THEN customers' ELSE trainings') = reqs[i].payload
      /\ (customers' # customers \/ trainings' # trainings)
           => \E i \in 1..Len(reqs) :
                Delivers(i) /\ reqs[i].kind \in ListKinds /\ reqs[i].status = "ok"
    ]_vars

\* A second load has replaced a loaded collection by a different one.
C2_Witness ==
  /\ view = "customers" /\ AfterOk(ListKinds)
  /\ Len(customers) = 2
  /\ \E j \in 1..Len(reqs) :
       j # log[1].req /\ reqs[j].kind = "getCustomers" /\ reqs[j].delivered
       /\ reqs[j].status = "ok"

\* C3: a call in flight stays in flight until its own continuation runs (it
\* is neither cancelled nor superseded), and the continuation of a successful
\* list-all call sets the collection to its response whatever was issued or
\* resolved before: also when a call issued later has been applied already.
C3_ResolutionOrder ==
  [][ \A i \in 1..Len(reqs) :
        /\ InFlight(i) =>
             /\ i \in 1..Len(reqs') /\ reqs'[i].kind = reqs[i].kind
             /\ reqs'[i].delivered => (AfterResolve' /\ log'[1].req = i)
        /\ (Delivers(i) /\ reqs[i].kind = "getCustomers" /\ reqs[i].status = "ok")
             => customers' = reqs[i].payload
        /\ (Delivers(i) /\ reqs[i].kind = "getTrainings" /\ reqs[i].status = "ok"
              /\ view = "trainings")
             => trainings' = reqs[i].payload
    ]_vars

\* The response of an older list-all call, resolving after that of a newer
\* one, is what the view now shows, although the service holds something else.
C3_Witness ==
  /\ view = "customers" /\ AfterOk({"getCustomers"})
  /\ \E j \in 1..Len(reqs) :
       /\ j > log[1].req /\ reqs[j].kind = "getCustomers"
       /\ reqs[j].delivered /\ reqs[j].status = "ok"
  /\ customers # srvCustomers

\* The state a handler sets when it closes its dialog and clears its selection.
CloseOrClear ==
  {"customerDialogOpen=false", "selectedCustomer=null", "deleteDialogOpen=false",
   "selectedCustomerUrl=''", "selectedTrainingId=null"}

\* The last task was the rest of handleDeleteTraining, after its refresh.
AfterAwaitedRefresh ==
  AfterResolve /\ Trigger.kind = "getTrainings" /\ Trigger.awaited

\* C4: for customer create, update, delete and training delete: the refresh is
\* issued only in the continuation of the successful mutating call; a handler
\* closes its dialog and clears its selection only after the refresh (in
\* CustomerList after issuing it, in the same task; in TrainingList after it
\* has resolved); and when the handler has finished, its dialog is closed and
\* its selection cleared.
C4_MutateRefreshClose ==
  /\ \A k \in 1..Len(log) :
       (IsListCall(log[k]) /\ ~AfterMount) => (AfterOk(RefreshingKinds) /\ k > 1)
  /\ \A k \in 1..Len(log) :
       (log[k].op = "set" /\ log[k].name \in CloseOrClear) =>
          \/ AfterOk({"addTraining"})
          \/ /\ AfterOk({"addCustomer", "updateCustomer", "deleteCustomer"})
             /\ \E p \in 2..(k - 1) : IsListCall(log[p])
          \/ AfterAwaitedRefresh
  /\ AfterOk({"addCustomer"}) => ~customerDialogOpen
  /\ AfterOk({"updateCustomer"}) => (~customerDialogOpen /\ selectedCustomer = <<>>)
  /\ AfterOk({"deleteCustomer"}) => (~deleteDialogOpen /\ selectedCustomerUrl = "")
  /\ AfterAwaitedRefresh => (~deleteDialogOpen /\ selectedTrainingId = NULL)

C4_Witness ==
  /\ view = "trainings" /\ AfterAwaitedRefresh /\ log[1].name = "ok"
  /\ Len(trainings) < Len(SeedTrainings)

\* C5: the continuation of a failed mutating call leaves the collection of
\* the view as it was.
C5_FailedMutationKeepsCollection ==
  [][ \A i \in 1..Len(reqs) :
        (Delivers(i) /\ reqs[i].kind \in MutatingKinds /\ reqs[i].status = "err")
          => (customers' = customers /\ trainings' = trainings)
    ]_vars

C5_Witness == AfterErr(MutatingKinds) /\ (customers # <<>> \/ trainings # <<>>)

\* C6: the continuation of a failed mutating call issues no call at all (no
\* list-all, no retry), leaves every dialog and selection as it was, and
\* raises one failure notification and no success notification; a mutating
\* call is only ever issued by a task of the user.
C6_FailedMutationHandled ==
  [][ /\ \A i \in 1..Len(reqs) :
           (Delivers(i) /\ reqs[i].kind \in MutatingKinds /\ reqs[i].status = "err")
             => /\ UNCHANGED dialogVars
                /\ Len(reqs') = Len(reqs)
                /\ NumCalls(log') = 0
                /\ NumToastError(log') = 1
                /\ NumToastSuccess(log') = 0
      /\ \A k \in 1..Len(log') : IsMutatingCall(log'[k]) => log'[1].op = "user"
    ]_vars

C6_Witness ==
  \/ AfterErr({"deleteCustomer"}) /\ deleteDialogOpen /\ selectedCustomerUrl # ""
  \/ AfterErr({"deleteTraining"}) /\ deleteDialogOpen /\ selectedTrainingId # NULL

\* The list-all calls of a list view other than the one issued on mount.
IsRefresh(i) == reqs[i].kind \in ListKinds /\ i > 1

\* C7 as stated: when a refresh has failed, no success notification has been
\* raised for the mutation it follows.
C7_AsStated ==
  (ListView /\ AfterErr(ListKinds) /\ IsRefresh(log[1].req)) =>
     (~Trigger.notified /\ NumToastSuccess(log) = 0)

\* C7 amended: the continuation of a failed refresh leaves the collection as
\* it was and raises one failure notification, and the success notification
\* of the mutation is raised all the same: by CustomerList before it issues
\* the refresh, by TrainingList after the refresh has failed.
C7_StaleButNotified ==
  [][ /\ \A i \in 1..Len(reqs) :
           (ListView /\ Delivers(i) /\ IsRefresh(i) /\ reqs[i].status = "err")
             => /\ customers' = customers /\ trainings' = trainings
                /\ NumToastError(log') = 1
                /\ IF view = "customers"
                   THEN reqs[i].notified
                   ELSE \E k \in 1..Len(log') :
                          /\ IsToastSuccess(log'[k])
                          /\ \E p \in 1..(k - 1) : IsToastError(log'[p])
      /\ \A k \in 1..Len(log') :
           (IsListCall(log'[k]) /\ reqs'[log'[k].req].notified)
             => \E p \in 1..(k - 1) : IsToastSuccess(log'[p])
    ]_vars

\* The refresh after a delete failed: the view still lists a training the
\* service no longer holds.
C7_Witness ==
  /\ ListView /\ AfterErr(ListKinds) /\ IsRefresh(log[1].req)
  /\ \/ view = "trainings" /\ Len(trainings) > Len(srvTrainings)
     \/ view = "customers" /\ Len(customers) > Len(srvCustomers)

\* The last task was the continuation of the failed call issued on mount.
AfterInitialLoadFailed == AfterErr(ListKinds) /\ log[1].req = 1

\* C8 as stated: after the failure of the initial list-all call the view
\* holds the empty list, is not loading, has raised one failure notification
\* and has issued no call.
C8_AsStated ==
  AfterInitialLoadFailed =>
     /\ customers = <<>> /\ trainings = <<>> /\ events = <<>> /\ stats = <<>>
     /\ ~loading
     /\ NumToastError(log) = 1
     /\ NumCalls(log) = 0

\* C8 amended: the same, except that the customers collection is then what a
\* refresh has loaded, if the refresh of a customer mutation submitted during
\* the initial load resolved successfully before the initial call failed.
C8_InitialLoadFailure ==
  AfterInitialLoadFailed =>
     /\ trainings = <<>> /\ events = <<>> /\ stats = <<>>
     /\ \/ customers = <<>>
        \/ \E j \in 2..Len(reqs) :
             reqs[j].kind = "getCustomers" /\ reqs[j].delivered /\ reqs[j].status = "ok"
     /\ ~loading
     /\ NumToastError(log) = 1
     /\ NumCalls(log) = 0

C8_Witness == AfterInitialLoadFailed /\ view = "customers" /\ customers # <<>>

\* C9: every create-training request carries the locator, not empty, of the
\* row whose Add Training action opened the dialog.
C9_TrainingForClickedRow ==
  \A k \in 1..Len(log) :
     (log[k].op = "call" /\ log[k].name = "addTraining") =>
        /\ reqs[log[k].req].body[1].customer # ""
        /\ reqs[log[k].req].body[1].customer = trainingDialogRow

\* C10: when the refresh awaited by handleDeleteTraining after the delete of
\* training X has resolved successfully, the view lists no training with id X.
C10_DeletedNotListed ==
  (view = "trainings" /\ AfterAwaitedRefresh /\ log[1].name = "ok") =>
     \A k \in 1..Len(trainings) : trainings[k].id # Trigger.target

C10_Witness ==
  /\ view = "trainings" /\ AfterAwaitedRefresh /\ log[1].name = "ok"
  /\ Trigger.target = 1
  /\ { trainings[k].id : k \in 1..Len(trainings) } = {0, 2}

----------------------------------------------------------------------------
(* Searching a list view *)

\* The task that just ran is the onChange handler of a search field.
AfterSearch == log # <<>> /\ log[1] = User("search")

\* C11: changing the search term of a list view issues no network call and
\* leaves the loaded collections, the loading flag, the dialogs and the
\* selection as they were; only the search term (and with it the rows derived
\* from it) changes.
C11_SearchFrame ==
  [][ AfterSearch' /\ searchTerm' # searchTerm
        => /\ NumCalls(log') = 0
           /\ reqs' = reqs
           /\ UNCHANGED <<view, mounted, srvVars, dataVars, loading, dialogVars>> ]_vars

\* A search has just narrowed the rows of a loaded customer list.
C11_Witness ==
  /\ AfterSearch /\ view = "customers"
  /\ filteredCustomers # <<>>
  /\ Len(filteredCustomers) < Len(customers)

\* The lower-cased term occurs in the lower-cased value, character for character.
TermIn(term, value) ==
  \E off \in 0..(Len(value) - Len(term)) :
    \A k \in 1..Len(term) :
      LowerChar(CharAt(value, off + k)) = LowerChar(CharAt(term, k))

\* The texts of a row that the search looks at.
CustomerFields(c) == {c.firstname, c.lastname, c.email, c.city}
TrainingFields(t) ==
  {t.activity} \cup
  (IF t.customer = <<>> THEN {}
   ELSE {t.customer[1].firstname \o " " \o t.customer[1].lastname})

\* Positions of the loaded rows that the current term selects.
ShownCustomers == { k \in 1..Len(customers) :
                      \E f \in CustomerFields(customers[k]) : TermIn(searchTerm, f) }
ShownTrainings == { k \in 1..Len(trainings) :
                      \E f \in TrainingFields(trainings[k]) : TermIn(searchTerm, f) }

\* rows is coll restricted to the positions idx, in the order of coll.
RowsAt(rows, coll, idx) ==
  /\ Len(rows) = Cardinality(idx)
  /\ \A j \in 1..Len(rows) :
       rows[j] = coll[CHOOSE k \in idx : Cardinality({ m \in idx : m <= k }) = j]

C13_FilterIdempotent ==
  /\ FilterCustomers(filteredCustomers, searchTerm) = filteredCustomers
  /\ FilterTrainings(filteredTrainings, searchTerm) = filteredTrainings

\* A term that spans first and last name has selected one training of several.
C13_Witness ==
  /\ AfterSearch /\ view = "trainings" /\ searchTerm = "n l"
  /\ Len(filteredTrainings) = 1
  /\ Len(trainings) > 1

----------------------------------------------------------------------------
(* Calendar and statistics *)

\* The step is the continuation of the successful list-all call i of the
\* given view.
LoadsOk(v, i) ==
  /\ view = v /\ Arrived(i)
  /\ reqs[i].kind = "getTrainings" /\ reqs[i].status = "ok"
  /\ log' # <<>> /\ log'[1] = Resolved(i)
  /\ reqs'[i].delivered

\* The calendar entries are the trainings ts, one for one and in order, each
\* ending duration minutes after it starts.
EntriesOf(es, ts) ==
  /\ Len(es) = Len(ts)
  /\ \A k \in 1..Len(ts) :
       /\ es[k].id = ts[k].id
       /\ es[k].start = GetTime(ts[k].date)
       /\ es[k].end = es[k].start + ts[k].duration * 60000

\* C14: after every successfully loaded training collection the calendar
\* holds exactly one entry per training, same id and same order, whose end in
\* milliseconds is its start plus the duration in minutes times 60000.
C14_CalendarEntries ==
  [][ \A i \in 1..Len(reqs) :
        LoadsOk("calendar", i) => EntriesOf(events', reqs[i].payload) ]_vars

\* The same, for the collections in which every training has its customer.
C14_EntriesWhenOwned ==
  [][ \A i \in 1..Len(reqs) :
        LoadsOk("calendar", i) /\ CanProject(reqs[i].payload)
          => EntriesOf(events', reqs[i].payload) ]_vars

RECURSIVE SumAt(_, _)
\* The durations of s at the positions idx, added up.
SumAt(s, idx) ==
  IF idx = {} THEN 0
  ELSE LET k == CHOOSE k \in idx : TRUE
       IN s[k].duration + SumAt(s, idx \ {k})

\* C15: after every successfully loaded training collection the durations of
\* the per-activity statistics entries add up to the durations of all the
\* trainings of the collection.
C15_StatsConserveDuration ==
  [][ \A i \in 1..Len(reqs) :
        LoadsOk("statistics", i)
          => SumAt(stats', 1..Len(stats')) = SumAt(reqs[i].payload, 1..Len(reqs[i].payload)) ]_vars

\* The last task loaded the statistics.
StatsLoaded ==
  /\ view = "statistics" /\ AfterResolve
  /\ Len(log) > 1 /\ log[2] = SetState("stats")

\* Statistics loaded in which one entry stands for several trainings.
C15_Witness ==
  /\ StatsLoaded
  /\ Len(stats) = 2
  /\ stats[1].duration = 75

\* The labels of the trainings ts.
Labels(ts) == { ts[k].activity : k \in 1..Len(ts) }

\* C16: after every successfully loaded training collection the statistics
\* hold exactly one entry per distinct activity label (labels compared as
\* exact strings), each with the summed duration of the trainings of that
\* label, in order of non-increasing duration; the trainings (Run 30, Run 45,
\* Yoga 20) give [(Run, 75), (Yoga, 20)].
C16_StatsPerActivity ==
  [][ \A i \in 1..Len(reqs) :
        LoadsOk("statistics", i) =>
          LET ts == reqs[i].payload
              st == stats'
          IN /\ Len(st) = Cardinality(Labels(ts))
             /\ { st[k].activity : k \in 1..Len(st) } = Labels(ts)
             /\ \A k \in 1..Len(st) :
                  st[k].duration =
                    SumAt(ts, { j \in 1..Len(ts) : ts[j].activity = st[k].activity })
             /\ \A k \in 1..(Len(st) - 1) : st[k].duration >= st[k + 1].duration
             /\ [ k \in 1..Len(ts) |-> <<ts[k].activity, ts[k].duration>> ]
                   = << <<"Run", 30>>, <<"Run", 45>>, <<"Yoga", 20>> >>
                 => st = << [activity |-> "Run", duration |-> 75],
                            [activity |-> "Yoga", duration |-> 20] >> ]_vars

\* Statistics loaded whose order is not the order in which the labels first
\* occur, with "Run" and "run" kept apart.
C16_Witness ==
  /\ StatsLoaded
  /\ Len(stats) = 3
  /\ stats[2].activity = "run" /\ stats[3].activity = "Run"

----------------------------------------------------------------------------
(* Reset *)

\* The last task reloaded the page.
Reloaded == \E k \in 1..Len(log) : log[k].op = "reload"

\* The last task was the continuation of a reset call with the given outcome.
AfterReset(status) ==
  /\ AfterResolve /\ log[1].name = status
  /\ Trigger.kind = "reset"

\* C17: the click on Reset Database issues the reset call at once, with no
\* confirmation step; the page is reloaded if and only if the reset call has
\* succeeded, and after the success; a failed reset call raises a failure
\* notification, reloads nothing and is not retried.
C17_Reset ==
  /\ (log # <<>> /\ log[1] = User("clickReset"))
       => /\ Len(log) = 2 /\ IsCall(log[2]) /\ log[2].name = "reset"
          /\ reqs[log[2].req].kind = "reset"
          /\ NoDialogOpen
  /\ Reloaded <=> AfterReset("ok")
  /\ AfterReset("ok") => log[Len(log)].op = "reload" /\ NumToastError(log) = 0
  /\ AfterReset("err")
       => /\ NumToastError(log) = 1
          /\ NumCalls(log) = 0
          /\ mounted
  /\ \A k \in 1..Len(log) :
       IsCall(log[k]) /\ log[k].name = "reset" => log[1] = User("clickReset")

\* The page has been reloaded by a reset that succeeded after an earlier
\* reset call had failed.
C17_Witness ==
  /\ AfterReset("ok") /\ Reloaded
  /\ \E j \in 1..Len(reqs) : reqs[j].kind = "reset" /\ reqs[j].status = "err"

----------------------------------------------------------------------------
(* Deleting *)

DeleteKinds == {"deleteCustomer", "deleteTraining"}

\* The step issues a request, which is then the last of reqs'.
Issues == Len(reqs') = Len(reqs) + 1

\* The selection of the mounted list view, and what it is when cleared.
Selection == IF view = "customers" THEN selectedCustomerUrl ELSE selectedTrainingId
NoSelection == IF view = "customers" THEN "" ELSE NULL

\* C18: a delete call (customer or training) is issued only by confirming the
\* delete dialog while a selection is set, and it targets the selected
\* identity; the click on a row's Delete action issues no call; confirming
\* with no selection set issues no call and changes no state.
C18_DeleteOnlyOnConfirm ==
  [][ /\ (Issues /\ reqs'[Len(reqs')].kind \in DeleteKinds)
          => /\ log'[1] = User("confirmDelete")
             /\ deleteDialogOpen
             /\ Selection # NoSelection
             /\ reqs'[Len(reqs')].target = Selection
             /\ reqs'[Len(reqs')].kind =
                  (IF view = "customers" THEN "deleteCustomer" ELSE "deleteTraining")
      /\ (log' # log /\ log'[1] = User("clickDelete"))
          => /\ reqs' = reqs
             /\ NumCalls(log') = 0
      /\ (log' # log /\ log'[1] = User("confirmDelete") /\ Selection = NoSelection)
          => /\ log' = << User("confirmDelete") >>
             /\ UNCHANGED <<view, searchTerm, mounted, srvVars, reqs, dataVars, loading,
                            dialogVars>> ]_vars

\* The delete dialog has just been confirmed with the selection cleared, in a
\* run in which a confirmation with a selection had issued a delete call.
C18_Witness ==
  /\ log = << User("confirmDelete") >>
  /\ deleteDialogOpen /\ Selection = NoSelection
  /\ \E j \in 1..Len(reqs) : reqs[j].kind \in DeleteKinds

----------------------------------------------------------------------------
(* The loading flag *)

\* List-all call i has been issued and the service has not answered it yet.
Unanswered(i) ==
  /\ InFlight(i) /\ reqs[i].kind \in ListKinds
  /\ reqs[i].status = "sent"

\* C19: in the Customers view the loading flag is true whenever at least one
\* list-all call is in flight, two calls in flight at once included.
C19_LoadingWhileInFlight ==
  (view = "customers" /\ \E i \in 1..Len(reqs) : Unanswered(i)) => loading

\* No list-all call of the mounted view awaits its continuation.
NoListCallInFlight ==
  \A i \in 1..Len(reqs) : ~(InFlight(i) /\ reqs[i].kind \in ListKinds)

\* C20: every issued request resolving in the end, every view leaves the
\* loading state: the flag is false whenever no list-all call of the view is
\* in flight after mount, whether the calls succeeded or failed, a true flag
\* eventually becomes false, and in the Trainings, Calendar and Statistics
\* views a false flag never becomes true again.
C20_LeavesLoading ==
  /\ [](mounted /\ NoListCallInFlight => ~loading)
  /\ [][view # "customers" /\ ~loading => ~loading']_vars
  /\ (loading ~> ~loading)

\* The Trainings view at rest, not loading, after one list-all call that
\* succeeded and one that failed.
C20_Witness ==
  /\ view = "trainings" /\ mounted /\ NoListCallInFlight /\ ~loading
  /\ \E i \in 1..Len(reqs) : reqs[i].kind = "getTrainings" /\ reqs[i].status = "ok"
  /\ \E i \in 1..Len(reqs) : reqs[i].kind = "getTrainings" /\ reqs[i].status = "err"

----------------------------------------------------------------------------
(* Deleting the clicked training *)

\* The step is the confirmation of the delete dialog of the Trainings view,
\* opened by the Delete action of the row with the given id (the only
\* assignment of an id to selectedTrainingId is that action's).
ConfirmsTraining(id) ==
  /\ view = "trainings" /\ deleteDialogOpen
  /\ selectedTrainingId = id
  /\ log' # log /\ log'[1] = User("confirmDelete")

\* C21: for every training row shown, whatever its integer id (0 included),
\* clicking its Delete action and then confirming the dialog issues exactly
\* one delete call, for that id.
C21_DeleteClickedTraining ==
  [][ \A row \in Range(trainings) :
        ConfirmsTraining(row.id)
          => /\ Issues
             /\ NumCalls(log') = 1
             /\ reqs'[Len(reqs')].kind = "deleteTraining"
             /\ reqs'[Len(reqs')].target = row.id ]_vars

\* The same, for the rows whose id is not 0.
C21_DeleteClickedNonZero ==
  [][ \A row \in Range(trainings) :
        ConfirmsTraining(row.id) /\ row.id # 0
          => /\ Issues
             /\ NumCalls(log') = 1
             /\ reqs'[Len(reqs')].kind = "deleteTraining"
             /\ reqs'[Len(reqs')].target = row.id ]_vars

----------------------------------------------------------------------------
(* Completion of a mutation against the dialogs of other actions *)

\* The step is the continuation of mutating call i of the Customers view, of
\* one of the given kinds.
Completes(i, kinds) ==
  /\ view = "customers" /\ Delivers(i)
  /\ reqs[i].kind \in kinds

\* C22: in the Customers view the completion of an in-flight mutation changes
\* only the dialog and the selection of the action that submitted it: it
\* closes no dialog of another action and clears no selection made for another
\* action meanwhile; a delete that completes while the Add Training dialog is
\* open leaves that dialog's customer locator intact.
C22_CompletionKeepsOtherDialogs ==
  [][ \A i \in 1..Len(reqs) :
        /\ Completes(i, {"deleteCustomer"})
             => /\ UNCHANGED <<customerDialogOpen, trainingDialogOpen, selectedCustomer,
                               isEditing>>
                /\ trainingDialogOpen => UNCHANGED selectedCustomerUrl
                /\ (deleteDialogOpen /\ selectedCustomerUrl # reqs[i].target)
                     => UNCHANGED <<deleteDialogOpen, selectedCustomerUrl>>
        /\ Completes(i, {"addTraining"})
             => /\ UNCHANGED <<customerDialogOpen, deleteDialogOpen, selectedCustomer,
                               isEditing>>
                /\ deleteDialogOpen => UNCHANGED selectedCustomerUrl
        /\ Completes(i, {"addCustomer", "updateCustomer"})
             => UNCHANGED <<trainingDialogOpen, deleteDialogOpen, selectedCustomerUrl>> ]_vars

\* The part of it that concerns the dialogs' open flags and the customer
\* form's selection, which the handlers do not share.
C22_OtherDialogsStayOpen ==
  [][ \A i \in 1..Len(reqs) :
        /\ Completes(i, {"deleteCustomer"})
             => UNCHANGED <<customerDialogOpen, trainingDialogOpen, selectedCustomer,
                            isEditing>>
        /\ Completes(i, {"addTraining"})
             => UNCHANGED <<customerDialogOpen, deleteDialogOpen, selectedCustomer,
                            isEditing>>
        /\ Completes(i, {"addCustomer", "updateCustomer"})
             => UNCHANGED <<trainingDialogOpen, deleteDialogOpen, selectedCustomerUrl>> ]_vars

====
